---- MODULE Spec2Model ----
(***************************************************************************)
(* Model of src/src/scope.rs of wgpu-profiler: the three scope guards      *)
(* (Scope, OwningScope, ManualOwningScope) over one GpuProfiler, driven by *)
(* a caller that obeys Rust's ownership and borrowing rules.               *)
(*                                                                         *)
(* A guard is a value that holds `profiler: &mut GpuProfiler` and a        *)
(* recorder (borrowed or owned).  The borrows are modelled by `chain`: the *)
(* live guards from outermost to innermost.  A method taking `&mut self`   *)
(* and returning a guard with the lifetime of that borrow makes the new    *)
(* guard the innermost one; a value that is mutably borrowed can neither   *)
(* be used nor dropped, so only the innermost guard is usable (Usable).    *)
(* Leaking a guard (std::mem::forget) is outside this layer and is not     *)
(* modelled: a guard's lifetime ends by drop or, for ManualOwningScope,    *)
(* by end_scope.                                                           *)
(***************************************************************************)
EXTENDS Integers, Sequences, FiniteSets, TLC

\* Bounds of the model.
MaxGuards == 3        \* guards started in one history
Labels == {"A", "B"}  \* labels the caller passes
Commands == {"draw"}  \* commands the caller records, each at most once

VARIABLES
    guards,       \* guards[g]: the guard instance g (fields and history)
    chain,        \* live guards, outermost first: the borrow chain of the profiler
    open_scopes,  \* GpuProfiler: the stack of begun, not yet ended scopes
    recorders,    \* recorders[r]: encoder or pass, its owner and state
    trace,        \* calls made on the profiler and the recorders, in order
    lastOp        \* the last operation of this layer and what it returned

vars == <<guards, chain, open_scopes, recorders, trace, lastOp>>

Caller == 0
NoGuard == 0
NoRecorder == 0
Released == 0 - 1

Event(ev, rec, g, label, ended) ==
    [ev |-> ev, rec |-> rec, guard |-> g, label |-> label, ended |-> ended]

Top(s) == IF s = <<>> THEN NoGuard ELSE s[Len(s)]
Front(s) == SubSeq(s, 1, Len(s) - 1)
Remove(s, x) == SelectSeq(s, LAMBDA y : y # x)
Range(s) == {s[i] : i \in DOMAIN s}

\* An operation of this layer: its name, the guard it was called on (NoGuard:
\* called by the caller with its own profiler reference), what it returned, and
\* the guard that held the profiler reference when it was called.
Op(op, g, ret) == [op |-> op, guard |-> g, ret |-> ret, active |-> Top(chain)]

(***************************************************************************)
(* GpuProfiler (crate::GpuProfiler, outside scope.rs): begin a named scope,*)
(* end the most recently begun scope.                                      *)
(***************************************************************************)
begin_scope(stack, label, rec, g) ==
    Append(stack, [label |-> label, recorder |-> rec, guard |-> g])

\* The scope an end_scope call ends: the most recently begun open one
\* (NoGuard when none is open).
ended_scope(stack) == IF stack = <<>> THEN NoGuard ELSE stack[Len(stack)].guard

end_scope(stack) == IF stack = <<>> THEN stack ELSE Front(stack)

(***************************************************************************)
(* Recorders.                                                              *)
(***************************************************************************)
Recorder(kind, owner, parent) ==
    [kind |-> kind, owner |-> owner, parent |-> parent, cmds |-> <<>>]

IsEncoder(r) == recorders[r].kind = "CommandEncoder"

\* wgpu::CommandEncoder::begin_render_pass / begin_compute_pass: a new pass
\* recorder that borrows the encoder; the pass is owned by whoever gets it.
begin_pass(recs, enc, kind, owner) == Append(recs, Recorder(kind, owner, enc))

SetOwner(recs, r, owner) == [recs EXCEPT ![r].owner = owner]

\* Dropping an owned recorder releases it (a pass is finalized).
Release(recs, r) == [recs EXCEPT ![r].owner = Released]

\* A command recorded on the recorder
Record(recs, r, cmd) == [recs EXCEPT ![r].cmds = Append(@, cmd)]

Recorded == UNION {Range(recorders[r].cmds) : r \in DOMAIN recorders}

(***************************************************************************)
(* Borrow rules read off the signatures.                                   *)
(***************************************************************************)
\* The caller holds the `&mut GpuProfiler` exactly when no guard holds it.
ProfilerFree == chain = <<>>

\* Mutant: methods that do not borrow the guard they are called on
Usable_any(g) == g \in Range(chain)

\* A guard can be used through `&mut self` / `&self` only while no guard
\* borrowed from it is live: it is the innermost guard of the chain.
Usable(g) == chain # <<>> /\ g = Top(chain)

\* Mutant: a guard that can be dropped while a guard borrowed from it is live
Droppable_any(g) == g \in Range(chain)

\* A guard can be dropped or moved (end_scope takes `self`) only while nothing
\* borrows from it.
Droppable(g) == chain # <<>> /\ g = Top(chain)

\* A recorder the caller owns and may lend or move.
CallerOwns(r) == r \in DOMAIN recorders /\ recorders[r].owner = Caller

NewGuard == Len(guards) + 1

Guard(kind, parent, r, label) ==
    [kind |-> kind, parent |-> parent, recorder |-> r, label |-> label,
     state |-> "Open"]

\* Mutant: start that begins the scope under a fixed label
Start_fixed_label(op, kind, from, r, label, recs, pre) ==
    /\ Len(guards) < MaxGuards
    /\ open_scopes' = begin_scope(open_scopes, "A", r, NewGuard)
    /\ trace' = trace \o pre \o <<Event("begin_scope", r, NewGuard, "A", NoGuard)>>
    /\ guards' = Append(guards, Guard(kind, from, r, label))
    /\ chain' = Append(chain, NewGuard)
    /\ recorders' = recs
    /\ lastOp' = Op(op, from, NewGuard)

(***************************************************************************)
(* start: begin_scope on the recorder, then build the guard.               *)
(*   op  : the operation of this layer that makes the call                 *)
(*   from: the guard whose profiler reference is passed on (NoGuard: the   *)
(*         caller's)                                                       *)
(*   recs: the recorders after the recorder was handed over                *)
(*   pre : the recorder calls made before begin_scope                      *)
(***************************************************************************)
Start(op, kind, from, r, label, recs, pre) ==
    /\ Len(guards) < MaxGuards
    /\ open_scopes' = begin_scope(open_scopes, label, r, NewGuard)
    /\ trace' = trace \o pre \o <<Event("begin_scope", r, NewGuard, label, NoGuard)>>
    /\ guards' = Append(guards, Guard(kind, from, r, label))
    /\ chain' = Append(chain, NewGuard)
    /\ recorders' = recs
    /\ lastOp' = Op(op, from, NewGuard)

\* Mutant: Scope::start that builds the guard without begin_scope
Scope_start_no_begin(op, from, r, label, recs) ==
    /\ Len(guards) < MaxGuards
    /\ guards' = Append(guards, Guard("Scope", from, r, label))
    /\ chain' = Append(chain, NewGuard)
    /\ recorders' = recs
    /\ lastOp' = Op(op, from, NewGuard)
    /\ UNCHANGED <<open_scopes, trace>>

\* Scope::start(profiler, recorder: &mut W, device, label)
Scope_start(op, from, r, label, recs) ==
    Start(op, "Scope", from, r, label, recs, <<>>)

\* OwningScope::start(profiler, recorder: W, device, label): recorder moved in
OwningScope_start(op, from, r, label, recs, pre) ==
    Start(op, "OwningScope", from, r, label, SetOwner(recs, r, NewGuard), pre)

\* ManualOwningScope::start(profiler, recorder: W, device, label)
ManualOwningScope_start(op, from, r, label, recs) ==
    Start(op, "ManualOwningScope", from, r, label, SetOwner(recs, r, NewGuard), <<>>)

Init ==
    /\ guards = <<>>
    /\ chain = <<>>
    /\ open_scopes = <<>>
    /\ recorders = <<>>
    /\ trace = <<>>
    /\ lastOp = [op |-> "none", guard |-> NoGuard, ret |-> NoGuard, active |-> NoGuard]

(***************************************************************************)
(* The caller starts a guard with the profiler reference it holds and a    *)
(* recorder it owns: an encoder it got back from an earlier guard, or one  *)
(* it has just created (wgpu::Device::create_command_encoder).             *)
(***************************************************************************)
CallerRecorders == {r \in DOMAIN recorders : CallerOwns(r)} \cup {Len(recorders) + 1}

WithRecorder(r) ==
    IF r \in DOMAIN recorders THEN recorders
    ELSE Append(recorders, Recorder("CommandEncoder", Caller, NoRecorder))

CallScopeStart ==
    \E r \in CallerRecorders, l \in Labels :
        /\ ProfilerFree
        /\ Scope_start("Scope::start", NoGuard, r, l, WithRecorder(r))

CallOwningScopeStart ==
    \E r \in CallerRecorders, l \in Labels :
        /\ ProfilerFree
        /\ OwningScope_start("OwningScope::start", NoGuard, r, l, WithRecorder(r), <<>>)

CallManualOwningScopeStart ==
    \E r \in CallerRecorders, l \in Labels :
        /\ ProfilerFree
        /\ ManualOwningScope_start("ManualOwningScope::start", NoGuard, r, l,
                                   WithRecorder(r))

(***************************************************************************)
(* scope(&mut self, device, label) -> Scope<'_, W>                         *)
(***************************************************************************)
IsKind(g, kind) == g \in DOMAIN guards /\ guards[g].kind = kind

Scope_scope(g, label) ==
    /\ IsKind(g, "Scope")
    /\ Usable(g)
    /\ Scope_start("Scope::scope", g, guards[g].recorder, label, recorders)

OwningScope_scope(g, label) ==
    /\ IsKind(g, "OwningScope")
    /\ Usable(g)
    /\ Scope_start("OwningScope::scope", g, guards[g].recorder, label, recorders)

ManualOwningScope_scope(g, label) ==
    /\ IsKind(g, "ManualOwningScope")
    /\ Usable(g)
    /\ Scope_start("ManualOwningScope::scope", g, guards[g].recorder, label, recorders)

(***************************************************************************)
(* scoped_render_pass / scoped_compute_pass (&mut self, device, label,     *)
(* pass_descriptor) on a guard over a wgpu::CommandEncoder: begin the pass *)
(* on the encoder, then OwningScope::start over the pass.                  *)
(***************************************************************************)
NewRecorder == Len(recorders) + 1

\* Mutant: the pass wrapped in an OwningScope built without OwningScope::start
scoped_pass_no_begin(op, g, label, passKind) ==
    /\ Usable(g)
    /\ IsEncoder(guards[g].recorder)
    /\ Len(guards) < MaxGuards
    /\ trace' = Append(trace, Event("begin_pass", NewRecorder, g, passKind, NoGuard))
    /\ guards' = Append(guards, Guard("OwningScope", g, NewRecorder, label))
    /\ chain' = Append(chain, NewGuard)
    /\ recorders' = begin_pass(recorders, guards[g].recorder, passKind, NewGuard)
    /\ lastOp' = Op(op, g, NewGuard)
    /\ UNCHANGED open_scopes

\* Mutant: begin_scope called on the encoder instead of the new pass
scoped_pass_scope_on_encoder(op, g, label, passKind) ==
    /\ Usable(g)
    /\ IsEncoder(guards[g].recorder)
    /\ Len(guards) < MaxGuards
    /\ open_scopes' = begin_scope(open_scopes, label, guards[g].recorder, NewGuard)
    /\ trace' = trace \o
         << Event("begin_pass", NewRecorder, g, passKind, NoGuard),
            Event("begin_scope", guards[g].recorder, NewGuard, label, NoGuard) >>
    /\ guards' = Append(guards, Guard("OwningScope", g, NewRecorder, label))
    /\ chain' = Append(chain, NewGuard)
    /\ recorders' = begin_pass(recorders, guards[g].recorder, passKind, NewGuard)
    /\ lastOp' = Op(op, g, NewGuard)

scoped_pass(op, g, label, passKind) ==
    /\ Usable(g)
    /\ IsEncoder(guards[g].recorder)
    /\ OwningScope_start(op, g, NewRecorder, label,
           begin_pass(recorders, guards[g].recorder, passKind, Caller),
           <<Event("begin_pass", NewRecorder, g, passKind, NoGuard)>>)

Scope_scoped_render_pass(g, label) ==
    /\ IsKind(g, "Scope")
    /\ scoped_pass("Scope::scoped_render_pass", g, label, "RenderPass")

Scope_scoped_compute_pass(g, label) ==
    /\ IsKind(g, "Scope")
    /\ scoped_pass("Scope::scoped_compute_pass", g, label, "ComputePass")

OwningScope_scoped_render_pass(g, label) ==
    /\ IsKind(g, "OwningScope")
    /\ scoped_pass("OwningScope::scoped_render_pass", g, label, "RenderPass")

OwningScope_scoped_compute_pass(g, label) ==
    /\ IsKind(g, "OwningScope")
    /\ scoped_pass("OwningScope::scoped_compute_pass", g, label, "ComputePass")

ManualOwningScope_scoped_render_pass(g, label) ==
    /\ IsKind(g, "ManualOwningScope")
    /\ scoped_pass("ManualOwningScope::scoped_render_pass", g, label, "RenderPass")

ManualOwningScope_scoped_compute_pass(g, label) ==
    /\ IsKind(g, "ManualOwningScope")
    /\ scoped_pass("ManualOwningScope::scoped_compute_pass", g, label, "ComputePass")

(***************************************************************************)
(* End of a guard's lifetime.                                              *)
(***************************************************************************)
\* Mutant: end_scope called on the encoder the guard's pass was begun on
CallEndScope_on_encoder(g) ==
    /\ open_scopes' = end_scope(open_scopes)
    /\ trace' = trace \o
         <<Event("end_scope",
                 IF recorders[guards[g].recorder].parent = NoRecorder
                     THEN guards[g].recorder
                     ELSE recorders[guards[g].recorder].parent,
                 g, "", ended_scope(open_scopes))>>

\* self.profiler.end_scope(recorder), as called by guard g
CallEndScope(g) ==
    /\ open_scopes' = end_scope(open_scopes)
    /\ trace' = trace \o
         <<Event("end_scope", guards[g].recorder, g, "", ended_scope(open_scopes))>>

\* The guard value is gone: its borrows of the profiler and the recorder end.
Close(g, state) ==
    /\ guards' = [guards EXCEPT ![g].state = state]
    /\ chain' = Remove(chain, g)

\* Mutant: Scope without a Drop impl (no end_scope at the end of its lifetime)
Scope_drop_no_end(g) ==
    /\ IsKind(g, "Scope")
    /\ Droppable(g)
    /\ Close(g, "Closed")
    /\ lastOp' = Op("Scope::drop", g, NoRecorder)
    /\ UNCHANGED <<recorders, open_scopes, trace>>

\* Mutant: Scope whose drop also releases the recorder it works on
Scope_drop_releases(g) ==
    /\ IsKind(g, "Scope")
    /\ Droppable(g)
    /\ open_scopes' = end_scope(open_scopes)
    /\ trace' = trace \o
         << Event("end_scope", guards[g].recorder, g, "", ended_scope(open_scopes)),
            Event("release", guards[g].recorder, g, "", NoGuard) >>
    /\ recorders' = Release(recorders, guards[g].recorder)
    /\ Close(g, "Closed")
    /\ lastOp' = Op("Scope::drop", g, NoRecorder)

\* impl Drop for Scope: end_scope; the borrowed recorder goes back to the lender
Scope_drop(g) ==
    /\ IsKind(g, "Scope")
    /\ Droppable(g)
    /\ CallEndScope(g)
    /\ Close(g, "Closed")
    /\ lastOp' = Op("Scope::drop", g, NoRecorder)
    /\ UNCHANGED recorders

\* Mutant: OwningScope whose drop does not call end_scope
OwningScope_drop_no_end(g) ==
    /\ IsKind(g, "OwningScope")
    /\ Droppable(g)
    /\ trace' = Append(trace, Event("release", guards[g].recorder, g, "", NoGuard))
    /\ recorders' = Release(recorders, guards[g].recorder)
    /\ Close(g, "Closed")
    /\ lastOp' = Op("OwningScope::drop", g, NoRecorder)
    /\ UNCHANGED open_scopes

\* Mutant: OwningScope whose drop calls end_scope twice
OwningScope_drop_twice(g) ==
    /\ IsKind(g, "OwningScope")
    /\ Droppable(g)
    /\ open_scopes' = end_scope(end_scope(open_scopes))
    /\ trace' = trace \o
         << Event("end_scope", guards[g].recorder, g, "", ended_scope(open_scopes)),
            Event("end_scope", guards[g].recorder, g, "",
                  ended_scope(end_scope(open_scopes))),
            Event("release", guards[g].recorder, g, "", NoGuard) >>
    /\ recorders' = Release(recorders, guards[g].recorder)
    /\ Close(g, "Closed")
    /\ lastOp' = Op("OwningScope::drop", g, NoRecorder)

\* Mutant: OwningScope whose recorder is released before end_scope is called
OwningScope_drop_release_first(g) ==
    /\ IsKind(g, "OwningScope")
    /\ Droppable(g)
    /\ open_scopes' = end_scope(open_scopes)
    /\ trace' = trace \o
         << Event("release", guards[g].recorder, g, "", NoGuard),
            Event("end_scope", guards[g].recorder, g, "", ended_scope(open_scopes)) >>
    /\ recorders' = Release(recorders, guards[g].recorder)
    /\ Close(g, "Closed")
    /\ lastOp' = Op("OwningScope::drop", g, NoRecorder)

\* impl Drop for OwningScope: end_scope, then the fields are dropped
OwningScope_drop(g) ==
    /\ IsKind(g, "OwningScope")
    /\ Droppable(g)
    /\ open_scopes' = end_scope(open_scopes)
    /\ trace' = trace \o
         << Event("end_scope", guards[g].recorder, g, "", ended_scope(open_scopes)),
            Event("release", guards[g].recorder, g, "", NoGuard) >>
    /\ recorders' = Release(recorders, guards[g].recorder)
    /\ Close(g, "Closed")
    /\ lastOp' = Op("OwningScope::drop", g, NoRecorder)

\* Mutant: ManualOwningScope with the Drop impl of OwningScope
ManualOwningScope_drop_ends(g) ==
    /\ IsKind(g, "ManualOwningScope")
    /\ Droppable(g)
    /\ open_scopes' = end_scope(open_scopes)
    /\ trace' = trace \o
         << Event("end_scope", guards[g].recorder, g, "", ended_scope(open_scopes)),
            Event("release", guards[g].recorder, g, "", NoGuard) >>
    /\ recorders' = Release(recorders, guards[g].recorder)
    /\ Close(g, "Abandoned")
    /\ lastOp' = Op("ManualOwningScope::drop", g, NoRecorder)

\* ManualOwningScope has no Drop impl: only its fields are dropped
ManualOwningScope_drop(g) ==
    /\ IsKind(g, "ManualOwningScope")
    /\ Droppable(g)
    /\ trace' = Append(trace, Event("release", guards[g].recorder, g, "", NoGuard))
    /\ recorders' = Release(recorders, guards[g].recorder)
    /\ Close(g, "Abandoned")
    /\ lastOp' = Op("ManualOwningScope::drop", g, NoRecorder)
    /\ UNCHANGED open_scopes

\* Mutant: end_scope that drops the recorder instead of returning it
ManualOwningScope_end_scope_releases(g) ==
    /\ IsKind(g, "ManualOwningScope")
    /\ Droppable(g)
    /\ CallEndScope(g)
    /\ recorders' = Release(recorders, guards[g].recorder)
    /\ Close(g, "Closed")
    /\ lastOp' = Op("ManualOwningScope::end_scope", g, NoRecorder)

\* Mutant: end_scope(&mut self), which leaves the guard usable
ManualOwningScope_end_scope_by_ref(g) ==
    /\ IsKind(g, "ManualOwningScope")
    /\ Usable(g)
    /\ Len(trace) < 4 * MaxGuards
    /\ CallEndScope(g)
    /\ lastOp' = Op("ManualOwningScope::end_scope", g, guards[g].recorder)
    /\ UNCHANGED <<guards, chain, recorders>>

\* Mutant: end_scope that hands back recorder and profiler without ending
ManualOwningScope_end_scope_no_end(g) ==
    /\ IsKind(g, "ManualOwningScope")
    /\ Droppable(g)
    /\ recorders' = SetOwner(recorders, guards[g].recorder, Caller)
    /\ Close(g, "Closed")
    /\ lastOp' = Op("ManualOwningScope::end_scope", g, guards[g].recorder)
    /\ UNCHANGED <<open_scopes, trace>>

\* ManualOwningScope::end_scope(mut self) -> (W, &'a mut GpuProfiler)
ManualOwningScope_end_scope(g) ==
    /\ IsKind(g, "ManualOwningScope")
    /\ Droppable(g)
    /\ CallEndScope(g)
    /\ recorders' = SetOwner(recorders, guards[g].recorder, Caller)
    /\ Close(g, "Closed")
    /\ lastOp' = Op("ManualOwningScope::end_scope", g, guards[g].recorder)

(***************************************************************************)
(* Deref / DerefMut: access to the wrapped recorder.                       *)
(***************************************************************************)
\* deref(&self) -> &W
deref(g, kind, op) ==
    /\ IsKind(g, kind)
    /\ Usable(g)
    /\ lastOp' = Op(op, g, guards[g].recorder)
    /\ lastOp' # lastOp
    /\ UNCHANGED <<guards, chain, open_scopes, recorders, trace>>

\* Mutant: deref_mut that hands out the encoder a pass was begun on
deref_mut_encoder(g, kind, op) ==
    /\ IsKind(g, kind)
    /\ Usable(g)
    /\ LET r == guards[g].recorder
           t == IF recorders[r].parent = NoRecorder THEN r ELSE recorders[r].parent
       IN  /\ \E cmd \in Commands \ Recorded : recorders' = Record(recorders, t, cmd)
           /\ lastOp' = Op(op, g, t)
    /\ UNCHANGED <<guards, chain, open_scopes, trace>>

\* deref_mut(&mut self) -> &mut W, and one command recorded through it
deref_mut(g, kind, op) ==
    /\ IsKind(g, kind)
    /\ Usable(g)
    /\ \E cmd \in Commands \ Recorded :
           recorders' = Record(recorders, guards[g].recorder, cmd)
    /\ lastOp' = Op(op, g, guards[g].recorder)
    /\ UNCHANGED <<guards, chain, open_scopes, trace>>

Scope_deref(g) == deref(g, "Scope", "Scope::deref")
Scope_deref_mut(g) == deref_mut(g, "Scope", "Scope::deref_mut")
OwningScope_deref(g) == deref(g, "OwningScope", "OwningScope::deref")
OwningScope_deref_mut(g) == deref_mut(g, "OwningScope", "OwningScope::deref_mut")
ManualOwningScope_deref(g) == deref(g, "ManualOwningScope", "ManualOwningScope::deref")
ManualOwningScope_deref_mut(g) ==
    deref_mut(g, "ManualOwningScope", "ManualOwningScope::deref_mut")

Guards == DOMAIN guards

Next ==
    \/ CallScopeStart
    \/ CallOwningScopeStart
    \/ CallManualOwningScopeStart
    \/ \E g \in Guards, l \in Labels : Scope_scope(g, l)
    \/ \E g \in Guards, l \in Labels : OwningScope_scope(g, l)
    \/ \E g \in Guards, l \in Labels : ManualOwningScope_scope(g, l)
    \/ \E g \in Guards, l \in Labels : Scope_scoped_render_pass(g, l)
    \/ \E g \in Guards, l \in Labels : Scope_scoped_compute_pass(g, l)
    \/ \E g \in Guards, l \in Labels : OwningScope_scoped_render_pass(g, l)
    \/ \E g \in Guards, l \in Labels : OwningScope_scoped_compute_pass(g, l)
    \/ \E g \in Guards, l \in Labels : ManualOwningScope_scoped_render_pass(g, l)
    \/ \E g \in Guards, l \in Labels : ManualOwningScope_scoped_compute_pass(g, l)
    \/ \E g \in Guards : Scope_drop(g)
    \/ \E g \in Guards : OwningScope_drop(g)
    \/ \E g \in Guards : ManualOwningScope_drop(g)
    \/ \E g \in Guards : ManualOwningScope_end_scope(g)
    \/ \E g \in Guards : Scope_deref(g)
    \/ \E g \in Guards : Scope_deref_mut(g)
    \/ \E g \in Guards : OwningScope_deref(g)
    \/ \E g \in Guards : OwningScope_deref_mut(g)
    \/ \E g \in Guards : ManualOwningScope_deref(g)
    \/ \E g \in Guards : ManualOwningScope_deref_mut(g)

Spec == Init /\ [][Next]_vars

(***************************************************************************)
(* Reading the history.                                                    *)
(***************************************************************************)
IsCall(e) == e.ev \in {"begin_scope", "end_scope"}

\* The profiler call trace: the begin_scope and end_scope calls, in order.
Calls == SelectSeq(trace, IsCall)

Positions(ev, g) == {i \in DOMAIN trace : trace[i].ev = ev /\ trace[i].guard = g}

BeginsBy(g) == Cardinality(Positions("begin_scope", g))
EndsBy(g) == Cardinality(Positions("end_scope", g))

\* Position in the trace of g's begin_scope / end_scope call (0: none)
Pos(ev, g) == IF Positions(ev, g) = {} THEN 0 ELSE CHOOSE i \in Positions(ev, g) : TRUE
BeginIdx(g) == Pos("begin_scope", g)
EndIdx(g) == Pos("end_scope", g)

Live(g) == g \in Range(chain)
IsOpen(g) == \E i \in DOMAIN open_scopes : open_scopes[i].guard = g
IsAuto(g) == guards[g].kind \in {"Scope", "OwningScope"}
IsManual(g) == guards[g].kind = "ManualOwningScope"

(***************************************************************************)
(* C1: N Scopes started one inside the other (Scope::start, then N-1 times *)
(* scope) and closed in reverse order give N begin_scope calls followed by *)
(* N end_scope calls, the k-th end_scope ending the scope of the           *)
(* (N-k+1)-th begin_scope.                                                 *)
(***************************************************************************)
NestedRun(N) ==
    /\ Len(guards) = N
    /\ chain = <<>>
    /\ \A i \in 1..N :
        /\ guards[i].kind = "Scope"
        /\ guards[i].parent = i - 1
        /\ guards[i].state = "Closed"

C1_NestedStackOrder ==
    \A N \in 1..MaxGuards :
        NestedRun(N) =>
            /\ Len(Calls) = 2 * N
            /\ \A k \in 1..N :
                /\ Calls[k].ev = "begin_scope"
                /\ Calls[k].guard = k
                /\ Calls[k].label = guards[k].label
                /\ Calls[N + k].ev = "end_scope"
                /\ Calls[N + k].ended = Calls[N - k + 1].guard
            /\ open_scopes = <<>>

C1_Witness == NestedRun(MaxGuards)

(***************************************************************************)
(* C2: every end_scope call a guard issues ends the scope this guard       *)
(* began: the profiler's most recently begun open scope at the call is the *)
(* guard's own, also after a ManualOwningScope was dropped without         *)
(* end_scope.                                                              *)
(***************************************************************************)
C2_EndsOwnScope ==
    \A i \in DOMAIN trace :
        trace[i].ev = "end_scope" => trace[i].ended = trace[i].guard

\* a guard started after an abandoned ManualOwningScope has been closed
C2_Witness ==
    \E m, g \in DOMAIN guards :
        /\ m < g
        /\ guards[m].state = "Abandoned"
        /\ guards[g].state = "Closed"
        /\ EndsBy(g) = 1

(***************************************************************************)
(* C3: a Scope or OwningScope issues no end_scope call while it is live    *)
(* and exactly one once its lifetime has ended.                            *)
(***************************************************************************)
C3_ExactlyOneEnd ==
    \A g \in DOMAIN guards :
        IsAuto(g) =>
            /\ Live(g) => EndsBy(g) = 0 /\ guards[g].state = "Open"
            /\ ~Live(g) => EndsBy(g) = 1 /\ guards[g].state = "Closed"

\* three guards nested in one another, all closed
C3_Witness ==
    \E a, b, c \in DOMAIN guards :
        /\ guards[b].parent = a
        /\ guards[c].parent = b
        /\ \A g \in {a, b, c} : IsAuto(g) /\ ~Live(g)
        /\ guards[c].kind = "OwningScope"

C5_EndScopeReturns ==
    /\ lastOp.op = "ManualOwningScope::end_scope" =>
        LET g == lastOp.guard IN
            /\ EndsBy(g) = 1
            /\ EndIdx(g) = Len(trace)
            /\ trace[EndIdx(g)].rec = trace[BeginIdx(g)].rec
            /\ lastOp.ret = trace[BeginIdx(g)].rec
            /\ recorders[lastOp.ret].owner = Caller
            /\ ProfilerFree
    /\ ( /\ Len(guards) = 2
         /\ \A g \in 1..2 : IsManual(g) /\ guards[g].state = "Closed"
                            /\ guards[g].parent = NoGuard ) =>
        /\ Len(Calls) = 4
        /\ Calls[1].ev = "begin_scope" /\ Calls[1].label = guards[1].label
        /\ Calls[2].ev = "end_scope" /\ Calls[2].ended = 1
        /\ Calls[3].ev = "begin_scope" /\ Calls[3].label = guards[2].label
        /\ Calls[4].ev = "end_scope" /\ Calls[4].ended = 2

\* two sibling ManualOwningScopes "A" and "B" over the same encoder, both ended
C5_Witness ==
    /\ Len(guards) = 2
    /\ \A g \in 1..2 : IsManual(g) /\ guards[g].state = "Closed"
    /\ guards[1].label = "A" /\ guards[2].label = "B"
    /\ guards[1].recorder = guards[2].recorder
    /\ lastOp.op = "ManualOwningScope::end_scope"

(***************************************************************************)
(* C6: end_scope consumes the ManualOwningScope: afterwards the guard is   *)
(* not live, no operation is called on it again, and it never issues a     *)
(* second end_scope call.                                                  *)
(***************************************************************************)
C6_EndScopeConsumes ==
    \A g \in DOMAIN guards :
        IsManual(g) =>
            /\ EndsBy(g) <= 1
            /\ EndsBy(g) = 1 =>
                /\ ~Live(g)
                /\ lastOp.guard = g => lastOp.op = "ManualOwningScope::end_scope"
                /\ EndIdx(g) < Len(trace) => lastOp.guard # g

\* a ManualOwningScope was ended and the caller went on with another guard
C6_Witness ==
    \E g, h \in DOMAIN guards :
        /\ IsManual(g) /\ EndsBy(g) = 1
        /\ g < h /\ Live(h)
        /\ lastOp.guard = h

(***************************************************************************)
(* C7: scoped_render_pass / scoped_compute_pass add exactly one            *)
(* begin_scope/end_scope pair, nested inside the pair of the encoder       *)
(* guard; closing the pass guard issues one end_scope, which ends the pass *)
(* scope and leaves the encoder guard's scope open.                        *)
(***************************************************************************)
IsPass(r) == recorders[r].kind \in {"RenderPass", "ComputePass"}

\* p was returned by scoped_render_pass / scoped_compute_pass of guard e
IsPassGuardOf(p, e) ==
    /\ guards[p].parent = e
    /\ e # NoGuard
    /\ IsPass(guards[p].recorder)
    /\ recorders[guards[p].recorder].parent = guards[e].recorder

C7_PassPairNested ==
    \A p, e \in DOMAIN guards :
        IsPassGuardOf(p, e) =>
            /\ BeginsBy(p) = 1
            /\ BeginIdx(e) < BeginIdx(p)
            /\ Live(p) => EndsBy(p) = 0 /\ IsOpen(e) /\ Live(e)
            /\ ~Live(p) =>
                /\ EndsBy(p) = 1
                /\ trace[EndIdx(p)].ended = p
                /\ EndIdx(e) = 0 \/ EndIdx(p) < EndIdx(e)
                /\ Live(e) => IsOpen(e) /\ EndsBy(e) = 0

\* the pass guard has just been closed and its encoder guard is still live
C7_Witness ==
    /\ lastOp.op = "OwningScope::drop"
    /\ \E e \in DOMAIN guards :
        /\ IsPassGuardOf(lastOp.guard, e)
        /\ Live(e)
        /\ Top(open_scopes).guard = e

(***************************************************************************)
(* C8: closing an OwningScope first calls end_scope on the owned recorder  *)
(* and then releases the recorder.  For an OwningScope over an encoder     *)
(* that spawned a render pass guard and closed it, the trace is            *)
(* begin(outer), begin pass, begin(inner), end (pass scope), pass          *)
(* released, end (outer).                                                  *)
(***************************************************************************)
PassScenario ==
    /\ Len(guards) = 2
    /\ guards[1].kind = "OwningScope" /\ guards[1].parent = NoGuard
    /\ IsPassGuardOf(2, 1)
    /\ chain = <<>>

C8_EndThenRelease ==
    /\ \A g \in DOMAIN guards :
        (guards[g].kind = "OwningScope" /\ ~Live(g)) =>
            /\ EndIdx(g) # 0
            /\ EndIdx(g) < Len(trace)
            /\ trace[EndIdx(g) + 1].ev = "release"
            /\ trace[EndIdx(g) + 1].rec = guards[g].recorder
            /\ Cardinality(Positions("release", g)) = 1
    /\ PassScenario =>
        /\ Len(trace) = 7
        /\ trace[1].ev = "begin_scope" /\ trace[1].guard = 1
        /\ trace[2].ev = "begin_pass" /\ trace[2].rec = guards[2].recorder
        /\ trace[3].ev = "begin_scope" /\ trace[3].guard = 2
                                       /\ trace[3].rec = guards[2].recorder
        /\ trace[4].ev = "end_scope" /\ trace[4].ended = 2
        /\ trace[5].ev = "release" /\ trace[5].rec = guards[2].recorder
        /\ trace[6].ev = "end_scope" /\ trace[6].ended = 1
        /\ trace[7].ev = "release" /\ trace[7].rec = guards[1].recorder

C8_Witness ==
    /\ PassScenario
    /\ recorders[guards[2].recorder].kind = "RenderPass"

(***************************************************************************)
(* C9: a guard with a live child guard cannot be closed: while a child is  *)
(* live its parent is live and has issued no end_scope call, and every     *)
(* child's end_scope call precedes its parent's.                           *)
(***************************************************************************)
C9_ChildEndsFirst ==
    \A c \in DOMAIN guards :
        LET p == guards[c].parent IN
            p # NoGuard =>
                /\ Live(c) => Live(p) /\ EndsBy(p) = 0
                /\ EndIdx(p) # 0 => EndIdx(c) # 0 /\ EndIdx(c) < EndIdx(p)

\* a chain of three guards, the outermost a ManualOwningScope, all ended
C9_Witness ==
    /\ Len(guards) = 3
    /\ IsManual(1)
    /\ guards[2].parent = 1 /\ guards[3].parent = 2
    /\ EndIdx(1) # 0

(***************************************************************************)
(* C10: only the innermost live guard of the chain is active: every        *)
(* operation called on a guard is called on the innermost live one, each   *)
(* live guard but the outermost was opened from the live guard before it,  *)
(* and no two pass guards of one encoder are live at the same time.        *)
(***************************************************************************)
C10_OnlyInnermostActive ==
    /\ lastOp.guard = lastOp.active
    /\ \A i \in DOMAIN chain :
        guards[chain[i]].parent = IF i = 1 THEN NoGuard ELSE chain[i - 1]
    /\ \A p, q \in Range(chain) :
        ( /\ p # q
          /\ IsPass(guards[p].recorder) /\ IsPass(guards[q].recorder)
          /\ recorders[guards[p].recorder].owner = p
          /\ recorders[guards[q].recorder].owner = q ) =>
            recorders[guards[p].recorder].parent # recorders[guards[q].recorder].parent

\* a second pass was spawned from an encoder guard after the first was closed
C10_Witness ==
    \E p, q \in DOMAIN guards :
        /\ p < q
        /\ guards[p].parent = guards[q].parent
        /\ IsPassGuardOf(p, guards[p].parent)
        /\ IsPassGuardOf(q, guards[q].parent)
        /\ ~Live(p) /\ Live(q)

(***************************************************************************)
(* C11: every scope begun by a Scope or OwningScope is eventually ended,   *)
(* given that every guard's lifetime eventually ends; and a begun scope    *)
(* whose guard is gone without a matching end_scope is always that of a    *)
(* ManualOwningScope dropped without end_scope.                            *)
(***************************************************************************)
\* The lifetime of the innermost guard ends: scope exit drops it, or the
\* caller consumes a ManualOwningScope with end_scope.
LifetimeEnds ==
    \E g \in Guards :
        \/ Scope_drop(g)
        \/ OwningScope_drop(g)
        \/ ManualOwningScope_drop(g)
        \/ ManualOwningScope_end_scope(g)

FairSpec == Spec /\ WF_vars(LifetimeEnds)

Begun(g) == g \in DOMAIN guards /\ BeginsBy(g) = 1

\* every scope begun so far by a Scope or OwningScope has been ended
AutoScopesEnded ==
    \A g \in DOMAIN guards :
        (Begun(g) /\ IsAuto(g)) => (EndsBy(g) = 1 /\ ~IsOpen(g))

\* Guards are started and closed one chain at a time and an ended scope stays
\* ended, so "each begun scope is eventually ended" is "again and again all
\* scopes begun so far are ended".
C11_EventuallyEnded ==
    /\ []<>AutoScopesEnded
    /\ [](\A i \in DOMAIN open_scopes :
            LET g == open_scopes[i].guard IN
                ~Live(g) => IsManual(g) /\ guards[g].state = "Abandoned")

\* an OwningScope started inside a ManualOwningScope has ended, and the
\* ManualOwningScope was then dropped with its scope left open
C11_Witness ==
    \E m, g \in DOMAIN guards :
        /\ IsManual(m) /\ guards[m].state = "Abandoned" /\ IsOpen(m)
        /\ guards[g].parent = m
        /\ guards[g].kind = "OwningScope"
        /\ EndsBy(g) = 1 /\ ~IsOpen(g)

(***************************************************************************)
(* C12: a Scope opened with scope on an OwningScope or ManualOwningScope   *)
(* works on the outer guard's recorder without owning it: it issues its    *)
(* end_scope and never releases the recorder, and while the outer guard is *)
(* live the outer guard owns the recorder; the recorder is released or     *)
(* handed back only by the guard that owns it.                             *)
(***************************************************************************)
IsOwning(g) == guards[g].kind \in {"OwningScope", "ManualOwningScope"}

\* g was opened with scope on the owning guard p
IsNestedIn(g, p) ==
    /\ guards[g].parent = p
    /\ p # NoGuard
    /\ guards[g].kind = "Scope"
    /\ IsOwning(p)

C12_NestedScopeBorrows ==
    /\ \A g, p \in DOMAIN guards :
        IsNestedIn(g, p) =>
            /\ guards[g].recorder = guards[p].recorder
            /\ trace[BeginIdx(g)].rec = guards[p].recorder
            /\ Positions("release", g) = {}
            /\ Live(p) => recorders[guards[p].recorder].owner = p
            /\ ~Live(g) => EndsBy(g) = 1
    /\ \A i \in DOMAIN trace :
        trace[i].ev = "release" =>
            /\ IsOwning(trace[i].guard)
            /\ trace[i].rec = guards[trace[i].guard].recorder
            /\ ~Live(trace[i].guard)

\* the nested Scope has just been closed, the owning guard is still live
C12_Witness ==
    /\ lastOp.op = "Scope::drop"
    /\ \E p \in DOMAIN guards :
        /\ IsNestedIn(lastOp.guard, p)
        /\ Live(p)
        /\ recorders[guards[p].recorder].owner = p

(***************************************************************************)
(* C13: deref / deref_mut on a guard give the recorder the guard was       *)
(* started with, issue no profiler call and leave the open-scope stack and *)
(* the guards unchanged; a command recorded through the guard changes that *)
(* recorder as recording it on the recorder itself does, and nothing else. *)
(***************************************************************************)
DerefOps == {"Scope::deref", "OwningScope::deref", "ManualOwningScope::deref"}
DerefMutOps ==
    {"Scope::deref_mut", "OwningScope::deref_mut", "ManualOwningScope::deref_mut"}

C13_TransparentAccess ==
    [][ (lastOp' # lastOp /\ lastOp'.op \in DerefOps \cup DerefMutOps) =>
          LET g == lastOp'.guard
              r == trace[BeginIdx(g)].rec
          IN  /\ lastOp'.ret = r
              /\ UNCHANGED <<trace, open_scopes, guards, chain>>
              /\ lastOp'.op \in DerefOps => UNCHANGED recorders
              /\ lastOp'.op \in DerefMutOps =>
                    \E cmd \in Commands : recorders' = Record(recorders, r, cmd)
      ]_vars

\* a command was recorded through a guard over a pass
C13_Witness ==
    /\ lastOp.op \in DerefMutOps
    /\ IsPass(lastOp.ret)
    /\ recorders[lastOp.ret].cmds # <<>>

(***************************************************************************)
(* C14: scoped_render_pass / scoped_compute_pass of each of the three      *)
(* encoder guards first begin the pass on the wrapped encoder, then call   *)
(* begin_scope(label) once, on the new pass and on the profiler of the     *)
(* encoder guard; the guard returned is an OwningScope that owns the pass. *)
(***************************************************************************)
RenderPassOps ==
    {"Scope::scoped_render_pass", "OwningScope::scoped_render_pass",
     "ManualOwningScope::scoped_render_pass"}
ComputePassOps ==
    {"Scope::scoped_compute_pass", "OwningScope::scoped_compute_pass",
     "ManualOwningScope::scoped_compute_pass"}

C14_PassThenScope ==
    lastOp.op \in RenderPassOps \cup ComputePassOps =>
        LET e == lastOp.guard
            p == lastOp.ret
            n == Len(trace)
            pass == trace[n - 1].rec
        IN  /\ n >= 3
            /\ trace[n - 1].ev = "begin_pass"
            /\ trace[n - 1].guard = e
            /\ recorders[pass].parent = guards[e].recorder
            /\ recorders[pass].parent = trace[BeginIdx(e)].rec
            /\ recorders[pass].kind =
                 IF lastOp.op \in RenderPassOps THEN "RenderPass" ELSE "ComputePass"
            /\ trace[n].ev = "begin_scope"
            /\ trace[n].guard = p
            /\ trace[n].rec = pass
            /\ trace[n].rec # guards[e].recorder
            /\ trace[n].label = guards[p].label
            /\ BeginsBy(p) = 1
            /\ guards[p].kind = "OwningScope"
            /\ guards[p].recorder = pass
            /\ recorders[pass].owner = p
            /\ Len(open_scopes) >= 2
            /\ open_scopes[Len(open_scopes)].guard = p
            /\ open_scopes[Len(open_scopes)].recorder = pass
            /\ open_scopes[Len(open_scopes) - 1].guard = e

\* a compute pass has just been spawned from a ManualOwningScope
C14_Witness ==
    /\ lastOp.op = "ManualOwningScope::scoped_compute_pass"
    /\ guards[lastOp.ret].kind = "OwningScope"
    /\ IsManual(lastOp.guard)

(***************************************************************************)
(* C15: every guard's end_scope call is made on the recorder of its        *)
(* begin_scope call: the borrowed recorder for a Scope (its parent's for a *)
(* nested one), the owned recorder for an OwningScope or ManualOwningScope,*)
(* the spawned pass for a pass guard.                                      *)
(***************************************************************************)
C15_EndOnBeginRecorder ==
    \A g \in DOMAIN guards :
        /\ \A i \in Positions("end_scope", g) :
            /\ trace[i].rec = trace[BeginIdx(g)].rec
            /\ trace[i].rec = guards[g].recorder
        /\ (guards[g].kind = "Scope" /\ guards[g].parent # NoGuard) =>
               trace[BeginIdx(g)].rec = trace[BeginIdx(guards[g].parent)].rec
        /\ (IsOwning(g) /\ guards[g].parent # NoGuard) =>
               /\ IsPass(trace[BeginIdx(g)].rec)
               /\ trace[BeginIdx(g)].rec # trace[BeginIdx(guards[g].parent)].rec

\* a Scope nested in a pass guard has ended, on the pass
C15_Witness ==
    \E g \in DOMAIN guards :
        /\ guards[g].kind = "Scope"
        /\ EndsBy(g) = 1
        /\ IsPass(trace[EndIdx(g)].rec)

(***************************************************************************)
(* C16: the profiler's stack of open scopes, bottom to top, is the scopes  *)
(* of the ManualOwningScopes dropped without end_scope followed by the     *)
(* scopes of the live guards, outermost first; so begin_scope calls minus  *)
(* end_scope calls = live guards + abandoned guards >= 0.                  *)
(***************************************************************************)
IsAbandoned(g) == guards[g].state = "Abandoned"

Abandoned == SelectSeq([g \in 1..Len(guards) |-> g], IsAbandoned)

OpenOwners == [i \in 1..Len(open_scopes) |-> open_scopes[i].guard]

CountCalls(ev) == Cardinality({i \in DOMAIN trace : trace[i].ev = ev})

C16_OpenStackShape ==
    /\ OpenOwners = Abandoned \o chain
    /\ CountCalls("begin_scope") - CountCalls("end_scope")
         = Len(chain) + Len(Abandoned)
    /\ CountCalls("begin_scope") >= CountCalls("end_scope")
    /\ \A i \in DOMAIN open_scopes :
        /\ open_scopes[i].label = guards[open_scopes[i].guard].label
        /\ open_scopes[i].recorder = guards[open_scopes[i].guard].recorder

\* one abandoned ManualOwningScope below a chain of two live guards
C16_Witness ==
    /\ Len(Abandoned) = 1
    /\ Len(chain) = 2
    /\ Len(open_scopes) = 3

(***************************************************************************)
(* C17: a ManualOwningScope is started only by the caller, never by a      *)
(* guard operation, so it is the outermost guard of its chain; once it is  *)
(* dropped without end_scope no later end_scope call ends its scope, and   *)
(* every guard started afterwards ends its own scope.                      *)
(***************************************************************************)
C17_ManualIsOutermost ==
    \A m \in DOMAIN guards :
        IsManual(m) =>
            /\ guards[m].parent = NoGuard
            /\ Live(m) => chain[1] = m
            /\ IsAbandoned(m) =>
                /\ IsOpen(m)
                /\ \A i \in DOMAIN trace :
                    trace[i].ev = "end_scope" =>
                        /\ trace[i].ended # m
                        /\ trace[i].guard > m => trace[i].ended = trace[i].guard
                /\ \A g \in DOMAIN guards :
                    (g > m /\ ~Live(g) /\ IsAuto(g)) => EndsBy(g) = 1 /\ ~IsOpen(g)

\* after an abandoned ManualOwningScope, a later guard and its child ended
C17_Witness ==
    \E m, g, h \in DOMAIN guards :
        /\ IsManual(m) /\ IsAbandoned(m)
        /\ m < g /\ guards[h].parent = g
        /\ EndsBy(g) = 1 /\ EndsBy(h) = 1
        /\ open_scopes = <<[label |-> guards[m].label,
                            recorder |-> guards[m].recorder, guard |-> m]>>

(***************************************************************************)
(* C18: start of each guard variant calls begin_scope exactly once, with   *)
(* the given label and recorder, and returns the guard with its scope      *)
(* begun: every guard has exactly one begin_scope call, and a live guard's *)
(* scope is open.                                                          *)
(***************************************************************************)
StartOps ==
    {"Scope::start", "OwningScope::start", "ManualOwningScope::start",
     "Scope::scope", "OwningScope::scope", "ManualOwningScope::scope"}
        \cup RenderPassOps \cup ComputePassOps

C18_StartBegins ==
    /\ \A g \in DOMAIN guards :
        /\ BeginsBy(g) = 1
        /\ trace[BeginIdx(g)].label = guards[g].label
        /\ trace[BeginIdx(g)].rec = guards[g].recorder
        /\ Live(g) => IsOpen(g) /\ guards[g].state = "Open"
    /\ CountCalls("begin_scope") = Len(guards)
    /\ lastOp.op \in StartOps =>
        /\ lastOp.ret = Len(guards)
        /\ trace[Len(trace)].ev = "begin_scope"
        /\ trace[Len(trace)].guard = lastOp.ret
        /\ Top(chain) = lastOp.ret
        /\ open_scopes[Len(open_scopes)] =
             [label |-> guards[lastOp.ret].label,
              recorder |-> guards[lastOp.ret].recorder, guard |-> lastOp.ret]

\* the three variants have been started, with both labels
C18_Witness ==
    /\ Len(guards) = 3
    /\ {guards[g].kind : g \in DOMAIN guards}
         = {"Scope", "OwningScope", "ManualOwningScope"}
    /\ {guards[g].label : g \in DOMAIN guards} = Labels
    /\ lastOp.op \in StartOps
====
